---- MODULE Spec2Model ----
(***************************************************************************)
(* Proposal-and-voting canister (final_project_backend/src/lib.rs).        *)
(*                                                                         *)
(* The canister state is one StableBTreeMap<u64, Proposal>.  Every update  *)
(* call runs to completion (no await points); a call that panics traps,    *)
(* and the host then discards every write the call made.                   *)
(***************************************************************************)
EXTENDS Integers, Sequences, FiniteSets, TLC

\* ------------------------------------------------------------------ bounds
MaxCalls == 4        \* calls made in one behaviour

Keys == {1, 2}
Principals == {"alice", "bob"}
Descriptions == {"test", "edited"}

\* ------------------------------------------------------------------- types
\* A u32 is kept as its two 16-bit halves, [hi, lo] for hi * 2^16 + lo, so
\* that the whole range 0 .. 2^32 - 1 and its wrap-around are represented.
Half == 65536

u32(hi, lo) == [hi |-> hi, lo |-> lo]
Zero == u32(0, 0)
U32Max == u32(Half - 1, Half - 1)

Choice == {"Approve", "Reject", "Pass"}

VoteError ==
    {"AlreadyVoted", "ProposalIsNotActive", "NoSuchProposal", "AccessRejected", "UpdateError"}

\* Option<T>
None == <<>>
Some(v) == <<v>>
unwrap(o) == o[1]

Proposal(description, approve, reject, pass, is_active, voted, owner) ==
    [description |-> description, approve |-> approve, reject |-> reject,
     pass |-> pass, is_active |-> is_active, voted |-> voted, owner |-> owner]

CreateProposal(description, is_active) ==
    [description |-> description, is_active |-> is_active]

\* Result<(), VoteError>
Ok == "Ok"
Err(e) == e
\* the call panicked: the host rolls the state back and the caller gets no value
Trap == "Trap"

VARIABLES
    PROPOSAL_MAP,      \* the stable map: key -> serialized Proposal
    overflow_checks,   \* build profile: does u32 overflow panic (TRUE) or wrap (FALSE)
    reply,             \* what the last call returned
    created_keys,      \* history: the keys passed to Create_proposal so far
    calls              \* number of calls made so far

vars == <<PROPOSAL_MAP, overflow_checks, reply, created_keys, calls>>

\* -------------------------------------------------------- Storable (candid)
\* Encode!: a candid record is written as its field values in the order of
\* the hashes of the field names: reject, owner, voted, pass, approve,
\* description, is_active.
to_bytes(p) ==
    <<p.reject, p.owner, p.voted, p.pass, p.approve, p.description, p.is_active>>

\* Decode!: reads the fields back by position.
from_bytes(b) ==
    Proposal(b[6], b[5], b[1], b[4], b[7], b[3], b[2])

\* ------------------------------------------------------- StableBTreeMap
\* Stable memory that holds no map yet.
EmptyMemory == [k \in {} |-> <<>>]

\* Faulty variant of init_map: StableBTreeMap::new(memory), a fresh, empty
\* map whatever the memory held.
new_map(memory) == EmptyMemory

\* StableBTreeMap::init(memory): the map the memory holds, the empty map if
\* it holds none.
init_map(memory) == memory

\* map.get(&key)
get(m, key) == IF key \in DOMAIN m THEN Some(from_bytes(m[key])) ELSE None

\* map.len()
len(m) == Cardinality(DOMAIN m)

\* map.insert(key, value): the map after the insert
insert_map(m, key, value) ==
    [x \in (DOMAIN m) \cup {key} |-> IF x = key THEN to_bytes(value) ELSE m[x]]

\* map.insert(key, value): the value returned, the previous one at key if any
insert_old(m, key, value) == get(m, key)

\* ------------------------------------------------------------ u32 arithmetic
\* x += 1 and x -= 1 on a u32: do they overflow
add_overflows(x) == x = U32Max
sub_overflows(x) == x = Zero

\* x + 1 and x - 1 modulo 2^32
wrapping_add(x) ==
    IF x.lo + 1 < Half THEN u32(x.hi, x.lo + 1) ELSE u32((x.hi + 1) % Half, 0)
wrapping_sub(x) ==
    IF x.lo > 0 THEN u32(x.hi, x.lo - 1) ELSE u32((x.hi + Half - 1) % Half, Half - 1)

\* Vec::contains
contains(v, x) == \E i \in 1..Len(v) : v[i] = x

\* Vec::push
push(v, x) == Append(v, x)

\* ------------------------------------------------------------ the handlers
\* What a call does: the value it returns and the map it leaves.
Outcome(result, ret, m) == [result |-> result, ret |-> ret, count |-> 0, map |-> m]

\* Faulty variant of update_result: the two arms of the match are swapped.
update_result_inverted(res) == IF res # None THEN Err("UpdateError") ELSE Ok

\* match res { Some(_) => Ok(()), None => Err(VoteError::UpdateError) }
update_result(res) == IF res # None THEN Ok ELSE Err("UpdateError")

\* Faulty variant of get_proposal: the record is taken out of the map
\* (remove(&key) for get(&key)).
get_proposal_removes(m, key) ==
    Outcome(Ok, get(m, key), [x \in (DOMAIN m) \ {key} |-> m[x]])

\* get_proposal(key)
get_proposal_call(m, key) == Outcome(Ok, get(m, key), m)

\* get_proposal_count()
get_proposal_count_call(m) == [Outcome(Ok, None, m) EXCEPT !.count = len(m)]

\* Faulty variant of create_value: the record is always created active.
create_value_active(proposal, caller) ==
    Proposal(proposal.description, Zero, Zero, Zero, TRUE, <<>>, caller)

\* Create_proposal: the record built from the request
create_value(proposal, caller) ==
    Proposal(proposal.description, Zero, Zero, Zero, proposal.is_active, <<>>, caller)

\* Create_proposal(key, proposal)
Create_proposal_call(m, caller, key, proposal) ==
    LET value == create_value(proposal, caller)
    IN  Outcome(Ok, insert_old(m, key, value), insert_map(m, key, value))

\* Faulty variant of edit_value: the voter list is reset as in Create_proposal.
edit_value_clears_voted(old_proposal, proposal) ==
    Proposal(proposal.description, old_proposal.approve, old_proposal.reject,
             old_proposal.pass, proposal.is_active, <<>>, old_proposal.owner)

\* Faulty variant of edit_value: the old description is carried over too.
edit_value_keeps_description(old_proposal, proposal) ==
    Proposal(old_proposal.description, old_proposal.approve, old_proposal.reject,
             old_proposal.pass, proposal.is_active, old_proposal.voted,
             old_proposal.owner)

\* edit_proposal: the record written back
edit_value(old_proposal, proposal) ==
    Proposal(proposal.description, old_proposal.approve, old_proposal.reject,
             old_proposal.pass, proposal.is_active, old_proposal.voted,
             old_proposal.owner)

\* Faulty variant of edit_proposal: the record is rebuilt as Create_proposal
\* builds it (owner: ic_cdk::caller()) and the owner check is missing.
edit_proposal_as_create(m, caller, key, proposal) ==
    LET old_proposal_opt == get(m, key)
    IN  IF old_proposal_opt = None THEN Outcome(Err("NoSuchProposal"), None, m)
        ELSE LET old_proposal == unwrap(old_proposal_opt)
                 value == [edit_value(old_proposal, proposal) EXCEPT !.owner = caller]
                 res == insert_old(m, key, value)
             IN  Outcome(update_result(res), None, insert_map(m, key, value))

\* Faulty variant of edit_proposal: the match on the read is missing, and a
\* key that holds no record gets a fresh one.
edit_proposal_upsert(m, caller, key, proposal) ==
    LET old_proposal_opt == get(m, key)
        old_proposal == IF old_proposal_opt = None
                        THEN create_value(proposal, caller)
                        ELSE unwrap(old_proposal_opt)
    IN  IF old_proposal.owner # caller
        THEN Outcome(Err("AccessRejected"), None, m)
        ELSE LET value == edit_value(old_proposal, proposal)
                 res == insert_old(m, key, value)
             IN  Outcome(update_result(res), None, insert_map(m, key, value))

\* edit_proposal(key, proposal)
edit_proposal_call(m, caller, key, proposal) ==
    LET old_proposal_opt == get(m, key)
    IN  IF old_proposal_opt = None THEN Outcome(Err("NoSuchProposal"), None, m)
        ELSE LET old_proposal == unwrap(old_proposal_opt)
             IN  IF old_proposal.owner # caller
                 THEN Outcome(Err("AccessRejected"), None, m)
                 ELSE LET value == edit_value(old_proposal, proposal)
                          res == insert_old(m, key, value)
                      IN  Outcome(update_result(res), None, insert_map(m, key, value))

\* Faulty variant of end_value: the flag is set the wrong way.
end_value_reopens(old_proposal) == [old_proposal EXCEPT !.is_active = TRUE]

\* end_proposal: the record written back
end_value(old_proposal) == [old_proposal EXCEPT !.is_active = FALSE]

\* Faulty variant of end_proposal: the owner check is missing.
end_proposal_unchecked(m, caller, key) ==
    LET old_proposal_opt == get(m, key)
    IN  IF old_proposal_opt = None THEN Outcome(Err("NoSuchProposal"), None, m)
        ELSE LET value == end_value(unwrap(old_proposal_opt))
                 res == insert_old(m, key, value)
             IN  Outcome(update_result(res), None, insert_map(m, key, value))

\* Faulty variant of end_proposal: the record is closed and written before
\* the owner check is made.
end_proposal_closes_first(m, caller, key) ==
    LET old_proposal_opt == get(m, key)
    IN  IF old_proposal_opt = None THEN Outcome(Err("NoSuchProposal"), None, m)
        ELSE LET old_proposal == unwrap(old_proposal_opt)
                 value == end_value(old_proposal)
                 res == insert_old(m, key, value)
             IN  IF old_proposal.owner # caller
                 THEN Outcome(Err("AccessRejected"), None, insert_map(m, key, value))
                 ELSE Outcome(update_result(res), None, insert_map(m, key, value))

\* Faulty variant of end_proposal: a record that is closed already is
\* refused.
end_proposal_once(m, caller, key) ==
    LET old_proposal_opt == get(m, key)
    IN  IF old_proposal_opt = None THEN Outcome(Err("NoSuchProposal"), None, m)
        ELSE LET old_proposal == unwrap(old_proposal_opt)
             IN  IF old_proposal.owner # caller
                 THEN Outcome(Err("AccessRejected"), None, m)
                 ELSE IF ~old_proposal.is_active
                 THEN Outcome(Err("ProposalIsNotActive"), None, m)
                 ELSE LET value == end_value(old_proposal)
                          res == insert_old(m, key, value)
                      IN  Outcome(update_result(res), None, insert_map(m, key, value))

\* Faulty variant of end_proposal: the record is removed from the map
\* (remove(&key) for insert(key, old_proposal)).
end_proposal_removes(m, caller, key) ==
    LET old_proposal_opt == get(m, key)
    IN  IF old_proposal_opt = None THEN Outcome(Err("NoSuchProposal"), None, m)
        ELSE LET old_proposal == unwrap(old_proposal_opt)
             IN  IF old_proposal.owner # caller
                 THEN Outcome(Err("AccessRejected"), None, m)
                 ELSE Outcome(update_result(old_proposal_opt), None,
                              [x \in (DOMAIN m) \ {key} |-> m[x]])

\* end_proposal(key)
end_proposal_call(m, caller, key) ==
    LET old_proposal_opt == get(m, key)
    IN  IF old_proposal_opt = None THEN Outcome(Err("NoSuchProposal"), None, m)
        ELSE LET old_proposal == unwrap(old_proposal_opt)
             IN  IF old_proposal.owner # caller
                 THEN Outcome(Err("AccessRejected"), None, m)
                 ELSE LET value == end_value(old_proposal)
                          res == insert_old(m, key, value)
                      IN  Outcome(update_result(res), None, insert_map(m, key, value))

\* Faulty variant of vote_check: the duplicate-vote check is missing.
vote_check_active_only(proposal, caller) ==
    IF proposal.is_active # TRUE THEN Some(Err("ProposalIsNotActive")) ELSE None

\* Faulty variant of vote_check: the activity check is made first.
vote_check_active_first(proposal, caller) ==
    IF proposal.is_active # TRUE THEN Some(Err("ProposalIsNotActive"))
    ELSE IF contains(proposal.voted, caller) THEN Some(Err("AlreadyVoted"))
    ELSE None

\* Faulty variant of vote_check: the activity check is missing.
vote_check_duplicate_only(proposal, caller) ==
    IF contains(proposal.voted, caller) THEN Some(Err("AlreadyVoted")) ELSE None

\* vote: the checks made before the tally, None when the vote is accepted
vote_check(proposal, caller) ==
    IF contains(proposal.voted, caller) THEN Some(Err("AlreadyVoted"))
    ELSE IF proposal.is_active # TRUE THEN Some(Err("ProposalIsNotActive"))
    ELSE None

\* vote: does `match choice { ... }` overflow its u32 counter
choice_overflows(proposal, choice) ==
    CASE choice = "Approve" -> add_overflows(proposal.approve)
      [] choice = "Pass"    -> sub_overflows(proposal.pass)
      [] choice = "Reject"  -> add_overflows(proposal.reject)

\* Faulty variant of apply_choice: Approve and Reject tally each other's counter.
apply_choice_swapped(proposal, choice) ==
    CASE choice = "Approve" -> [proposal EXCEPT !.reject = wrapping_add(@)]
      [] choice = "Pass"    -> [proposal EXCEPT !.pass = wrapping_sub(@)]
      [] choice = "Reject"  -> [proposal EXCEPT !.approve = wrapping_add(@)]

\* vote: `match choice { ... }` in a build where u32 arithmetic wraps
apply_choice(proposal, choice) ==
    CASE choice = "Approve" -> [proposal EXCEPT !.approve = wrapping_add(@)]
      [] choice = "Pass"    -> [proposal EXCEPT !.pass = wrapping_sub(@)]
      [] choice = "Reject"  -> [proposal EXCEPT !.reject = wrapping_add(@)]

\* vote(key, choice); checks says whether u32 overflow panics in this build
vote_call(m, caller, key, choice, checks) ==
    LET proposal_opt == get(m, key)
    IN  IF proposal_opt = None THEN Outcome(Err("NoSuchProposal"), None, m)
        ELSE LET proposal == unwrap(proposal_opt)
                 failed == vote_check(proposal, caller)
             IN  IF failed # None THEN Outcome(unwrap(failed), None, m)
                 ELSE IF checks /\ choice_overflows(proposal, choice)
                 THEN Outcome(Trap, None, m)
                 ELSE LET tallied == apply_choice(proposal, choice)
                          value == [tallied EXCEPT !.voted = push(@, caller)]
                          res == insert_old(m, key, value)
                      IN  Outcome(update_result(res), None, insert_map(m, key, value))

\* ------------------------------------------------------------- the calls
\* What the caller of `op` gets back: the Result, the Option<Proposal> of
\* get_proposal and Create_proposal, the u64 of get_proposal_count.
Reply(op, result, ret, count) ==
    [op |-> op, result |-> result, ret |-> ret, count |-> count]

\* One call: the host runs the handler to completion and commits its writes
\* unless it trapped.
Serve(op, out) ==
    /\ calls < MaxCalls
    /\ calls' = calls + 1
    /\ reply' = Reply(op, out.result, out.ret, out.count)
    /\ PROPOSAL_MAP' = IF out.result = Trap THEN PROPOSAL_MAP ELSE out.map
    /\ UNCHANGED overflow_checks

get_proposal(key) ==
    /\ key \in Keys
    /\ Serve("get_proposal", get_proposal_call(PROPOSAL_MAP, key))
    /\ UNCHANGED created_keys

get_proposal_count ==
    /\ TRUE
    /\ Serve("get_proposal_count", get_proposal_count_call(PROPOSAL_MAP))
    /\ UNCHANGED created_keys

Create_proposal(caller, key, proposal) ==
    /\ caller \in Principals
    /\ Serve("Create_proposal", Create_proposal_call(PROPOSAL_MAP, caller, key, proposal))
    /\ created_keys' = created_keys \cup {key}

edit_proposal(caller, key, proposal) ==
    /\ caller \in Principals
    /\ Serve("edit_proposal", edit_proposal_call(PROPOSAL_MAP, caller, key, proposal))
    /\ UNCHANGED created_keys

end_proposal(caller, key) ==
    /\ caller \in Principals
    /\ Serve("end_proposal", end_proposal_call(PROPOSAL_MAP, caller, key))
    /\ UNCHANGED created_keys

vote(caller, key, choice) ==
    /\ caller \in Principals
    /\ Serve("vote", vote_call(PROPOSAL_MAP, caller, key, choice, overflow_checks))
    /\ UNCHANGED created_keys

\* The process restarts between two calls: the thread_local state is built
\* again, the map over the stable memory the earlier calls wrote to.
Restart ==
    /\ calls < MaxCalls
    /\ calls' = calls + 1
    /\ reply' = Reply("restart", Ok, None, 0)
    /\ PROPOSAL_MAP' = init_map(PROPOSAL_MAP)
    /\ UNCHANGED <<overflow_checks, created_keys>>

CreateProposals == {CreateProposal(d, a) : d \in Descriptions, a \in BOOLEAN}

\* StableBTreeMap::init on fresh memory: the empty map
Init ==
    /\ PROPOSAL_MAP = init_map(EmptyMemory)
    /\ created_keys = {}
    /\ overflow_checks \in BOOLEAN
    /\ reply = Reply("init", Ok, None, 0)
    /\ calls = 0

Next ==
    \/ \E k \in Keys : get_proposal(k)
    \/ get_proposal_count
    \/ \E c \in Principals, k \in Keys, p \in CreateProposals : Create_proposal(c, k, p)
    \/ \E c \in Principals, k \in Keys, p \in CreateProposals : edit_proposal(c, k, p)
    \/ \E c \in Principals, k \in Keys : end_proposal(c, k)
    \/ \E c \in Principals, k \in Keys, ch \in Choice : vote(c, k, ch)
    \/ Restart

Spec == Init /\ [][Next]_vars

\* ------------------------------------------------------- reading the state
has(m, key) == get(m, key) # None
stored(m, key) == unwrap(get(m, key))

\* b = a + 1 as numbers, for two u32
plus_one(a, b) ==
    \/ a.lo + 1 < Half /\ b.hi = a.hi /\ b.lo = a.lo + 1
    \/ a.lo + 1 = Half /\ a.hi + 1 < Half /\ b.hi = a.hi + 1 /\ b.lo = 0

C2_NoDuplicateVoter ==
    \A k \in Keys :
        has(PROPOSAL_MAP, k) =>
            LET voted == stored(PROPOSAL_MAP, k).voted
            IN  \A i, j \in 1..Len(voted) : voted[i] = voted[j] => i = j

\* C2 witness: a record on which two callers have voted.
C2_Witness ==
    \E k \in Keys :
        has(PROPOSAL_MAP, k) /\ Len(stored(PROPOSAL_MAP, k).voted) >= 2

\* C3 as stated: no call of any operation changes the owner of the record
\* stored at a key.
C3_OwnerNeverChanges ==
    [][\A k \in Keys :
        has(PROPOSAL_MAP, k) =>
            stored(PROPOSAL_MAP', k).owner = stored(PROPOSAL_MAP, k).owner]_vars

\* C3 amended: edit_proposal, end_proposal, vote and the reads never change
\* the owner of the record at a key; only a Create_proposal on that key does,
\* and it makes its caller the owner.
C3_OwnerChangesOnlyByCreate ==
    [][\A k \in Keys :
        (has(PROPOSAL_MAP, k)
            /\ stored(PROPOSAL_MAP', k).owner # stored(PROPOSAL_MAP, k).owner)
        => /\ reply'.op = "Create_proposal"
           /\ \E c \in Principals, p \in CreateProposals :
                Create_proposal(c, k, p) /\ stored(PROPOSAL_MAP', k).owner = c]_vars

\* C3 witness: the owner edited a record on which somebody else has voted.
C3_Witness ==
    /\ reply.op = "edit_proposal"
    /\ reply.result = Ok
    /\ \E k \in Keys :
        /\ has(PROPOSAL_MAP, k)
        /\ stored(PROPOSAL_MAP, k).description = "edited"
        /\ \E c \in Principals :
            c # stored(PROPOSAL_MAP, k).owner /\ contains(stored(PROPOSAL_MAP, k).voted, c)

\* C4 as stated: no call of any operation takes is_active of the record at a
\* key from false to true.
C4_NeverReactivated ==
    [][\A k \in Keys :
        (has(PROPOSAL_MAP, k) /\ ~stored(PROPOSAL_MAP, k).is_active)
        => ~stored(PROPOSAL_MAP', k).is_active]_vars

\* C4 amended: is_active of the record at a key goes from false to true only
\* by a successful edit_proposal of its owner or a Create_proposal on that
\* key, called with is_active = true; end_proposal, vote, the reads and every
\* failed call leave an inactive record inactive.
C4_ReactivatedOnlyByEditOrCreate ==
    [][\A k \in Keys :
        (/\ has(PROPOSAL_MAP, k)
         /\ ~stored(PROPOSAL_MAP, k).is_active
         /\ stored(PROPOSAL_MAP', k).is_active)
        => \E c \in Principals, p \in CreateProposals :
            /\ p.is_active
            /\ \/ /\ reply'.op = "edit_proposal"
                  /\ reply'.result = Ok
                  /\ c = stored(PROPOSAL_MAP, k).owner
                  /\ edit_proposal(c, k, p)
               \/ /\ reply'.op = "Create_proposal"
                  /\ Create_proposal(c, k, p)]_vars

\* C4 witness: a vote was refused on an inactive record, which is inactive
\* still.
C4_Witness ==
    /\ reply.op = "vote"
    /\ reply.result = Err("ProposalIsNotActive")
    /\ \E k \in Keys : has(PROPOSAL_MAP, k) /\ ~stored(PROPOSAL_MAP, k).is_active

\* C5 as stated: no call of any operation removes a caller from the voted
\* list of the record at a key.
C5_VotedOnlyGrows ==
    [][\A k \in Keys :
        has(PROPOSAL_MAP, k) =>
            \A c \in Principals :
                contains(stored(PROPOSAL_MAP, k).voted, c)
                    => contains(stored(PROPOSAL_MAP', k).voted, c)]_vars

\* C5 amended: edit_proposal, end_proposal, vote and the reads keep every
\* caller that is in the voted list of the record at a key; only a
\* Create_proposal on that key removes callers, and it empties the list.
C5_VotedShrinksOnlyByCreate ==
    [][\A k \in Keys :
        (/\ has(PROPOSAL_MAP, k)
         /\ \E c \in Principals :
                /\ contains(stored(PROPOSAL_MAP, k).voted, c)
                /\ ~contains(stored(PROPOSAL_MAP', k).voted, c))
        => /\ reply'.op = "Create_proposal"
           /\ stored(PROPOSAL_MAP', k).voted = <<>>
           /\ \E c \in Principals, p \in CreateProposals : Create_proposal(c, k, p)]_vars

\* C5 witness: a vote was added to a list that held a voter already.
C5_Witness ==
    /\ reply.op = "vote"
    /\ reply.result = Ok
    /\ \E k \in Keys :
        has(PROPOSAL_MAP, k) /\ Len(stored(PROPOSAL_MAP, k).voted) = 2

\* C6: every successful vote(k, choice) adds exactly 1 to the counter that
\* matches choice and leaves the other two counters as they were.
C6_VoteIncrementsMatchingCounter ==
    [][\A c \in Principals, k \in Keys, ch \in Choice :
        (reply'.op = "vote" /\ reply'.result = Ok /\ vote(c, k, ch))
        => LET old == stored(PROPOSAL_MAP, k)
               new == stored(PROPOSAL_MAP', k)
           IN  /\ ch = "Approve" =>
                    /\ plus_one(old.approve, new.approve)
                    /\ new.reject = old.reject /\ new.pass = old.pass
               /\ ch = "Reject" =>
                    /\ plus_one(old.reject, new.reject)
                    /\ new.approve = old.approve /\ new.pass = old.pass
               /\ ch = "Pass" =>
                    /\ plus_one(old.pass, new.pass)
                    /\ new.approve = old.approve /\ new.reject = old.reject]_vars

\* approve + reject + pass as a number, in 16-bit digits (hi is unbounded)
tally(p) ==
    LET lo == p.approve.lo + p.reject.lo + p.pass.lo
    IN  [hi |-> p.approve.hi + p.reject.hi + p.pass.hi + (lo \div Half),
         lo |-> lo % Half]

\* a < b and b = a + 1, for two such numbers
tally_less(a, b) == a.hi < b.hi \/ (a.hi = b.hi /\ a.lo < b.lo)
tally_next(a, b) ==
    \/ a.lo + 1 < Half /\ b.hi = a.hi /\ b.lo = a.lo + 1
    \/ a.lo + 1 = Half /\ b.hi = a.hi + 1 /\ b.lo = 0

\* C7: a call raises approve + reject + pass of the record at a key by at
\* most 1, and only when it is a successful vote on that key made while the
\* record is active; no call changes a counter of an inactive record.
C7_TallyGrowsByOneWhileActive ==
    [][\A k \in Keys :
        has(PROPOSAL_MAP, k) =>
            LET old == stored(PROPOSAL_MAP, k)
                new == stored(PROPOSAL_MAP', k)
            IN  /\ tally_less(tally(old), tally(new)) =>
                    /\ tally_next(tally(old), tally(new))
                    /\ reply'.op = "vote"
                    /\ reply'.result = Ok
                    /\ old.is_active
                    /\ \E c \in Principals, ch \in Choice : vote(c, k, ch)
                /\ ~old.is_active =>
                    /\ new.approve = old.approve
                    /\ new.reject = old.reject
                    /\ new.pass = old.pass]_vars

\* C8: edit_proposal and end_proposal called on an existing record by a
\* caller that is not its owner return AccessRejected, and get_proposal
\* returns afterwards the record it returned before.
C8_NonOwnerRejected ==
    [][\A c \in Principals, k \in Keys :
        (has(PROPOSAL_MAP, k) /\ stored(PROPOSAL_MAP, k).owner # c)
        => /\ \A p \in CreateProposals :
                (reply'.op = "edit_proposal" /\ edit_proposal(c, k, p))
                => /\ reply'.result = Err("AccessRejected")
                   /\ get_proposal_call(PROPOSAL_MAP', k).ret
                        = get_proposal_call(PROPOSAL_MAP, k).ret
           /\ (reply'.op = "end_proposal" /\ end_proposal(c, k))
                => /\ reply'.result = Err("AccessRejected")
                   /\ get_proposal_call(PROPOSAL_MAP', k).ret
                        = get_proposal_call(PROPOSAL_MAP, k).ret]_vars

\* C8 witness: end_proposal was refused with AccessRejected on an active
\* record.
C8_Witness ==
    /\ reply.op = "end_proposal"
    /\ reply.result = Err("AccessRejected")
    /\ \E k \in Keys : has(PROPOSAL_MAP, k) /\ stored(PROPOSAL_MAP, k).is_active

\* C9: edit_proposal, end_proposal and vote on a key that holds no record
\* return NoSuchProposal and create no record: get_proposal_count is
\* unchanged and get_proposal of the key still returns none.
C9_NoSuchProposal ==
    [][\A c \in Principals, k \in Keys :
        ~has(PROPOSAL_MAP, k)
        => ((\/ reply'.op = "edit_proposal"
                /\ \E p \in CreateProposals : edit_proposal(c, k, p)
             \/ reply'.op = "end_proposal" /\ end_proposal(c, k)
             \/ reply'.op = "vote" /\ \E ch \in Choice : vote(c, k, ch))
            => /\ reply'.result = Err("NoSuchProposal")
               /\ get_proposal_call(PROPOSAL_MAP', k).ret = None
               /\ get_proposal_count_call(PROPOSAL_MAP').count
                    = get_proposal_count_call(PROPOSAL_MAP).count)]_vars

\* C9 witness: a call was answered NoSuchProposal while a key holds no
\* record and another one does.
C9_Witness ==
    /\ reply.result = Err("NoSuchProposal")
    /\ \E k \in Keys : ~has(PROPOSAL_MAP, k)
    /\ \E k \in Keys : has(PROPOSAL_MAP, k)

C11_AlreadyVotedBeforeNotActive ==
    [][\A c \in Principals, k \in Keys, ch \in Choice :
        (/\ reply'.op = "vote"
         /\ has(PROPOSAL_MAP, k)
         /\ ~stored(PROPOSAL_MAP, k).is_active
         /\ contains(stored(PROPOSAL_MAP, k).voted, c)
         /\ vote(c, k, ch))
        => reply'.result = Err("AlreadyVoted")]_vars

\* C11 witness: a vote was answered AlreadyVoted while the only record is
\* inactive and has a voter.
C11_Witness ==
    /\ reply.op = "vote"
    /\ reply.result = Err("AlreadyVoted")
    /\ \E k \in Keys :
        /\ DOMAIN PROPOSAL_MAP = {k}
        /\ ~stored(PROPOSAL_MAP, k).is_active
        /\ stored(PROPOSAL_MAP, k).voted # <<>>

\* C12 as stated: every vote on an inactive record fails with
\* ProposalIsNotActive, whether or not the caller is in its voted list.
C12_InactiveAlwaysNotActive ==
    [][\A c \in Principals, k \in Keys, ch \in Choice :
        (/\ reply'.op = "vote"
         /\ has(PROPOSAL_MAP, k)
         /\ ~stored(PROPOSAL_MAP, k).is_active
         /\ vote(c, k, ch))
        => reply'.result = Err("ProposalIsNotActive")]_vars

\* C12 amended: every vote on an inactive record fails and writes nothing;
\* it fails with ProposalIsNotActive when the caller is not in the voted
\* list, and with AlreadyVoted when the caller is in it.
C12_InactiveVoteFails ==
    [][\A c \in Principals, k \in Keys, ch \in Choice :
        (/\ reply'.op = "vote"
         /\ has(PROPOSAL_MAP, k)
         /\ ~stored(PROPOSAL_MAP, k).is_active
         /\ vote(c, k, ch))
        => /\ PROPOSAL_MAP' = PROPOSAL_MAP
           /\ reply'.result =
                IF contains(stored(PROPOSAL_MAP, k).voted, c)
                THEN Err("AlreadyVoted") ELSE Err("ProposalIsNotActive")]_vars

\* C12 witness: a vote was answered ProposalIsNotActive while the only
\* record is inactive and has one voter.
C12_Witness ==
    /\ reply.op = "vote"
    /\ reply.result = Err("ProposalIsNotActive")
    /\ \E k \in Keys :
        /\ DOMAIN PROPOSAL_MAP = {k}
        /\ ~stored(PROPOSAL_MAP, k).is_active
        /\ Len(stored(PROPOSAL_MAP, k).voted) = 1

\* C13: whenever edit_proposal, end_proposal or vote returns an error, the
\* whole store is what it was before the call.
C13_ErrorWritesNothing ==
    [][(/\ reply'.op \in {"edit_proposal", "end_proposal", "vote"}
        /\ reply'.result \in VoteError)
       => PROPOSAL_MAP' = PROPOSAL_MAP]_vars

\* C13 witness: an edit_proposal was answered AccessRejected on a record
\* that has a voter.
C13_Witness ==
    /\ reply.op = "edit_proposal"
    /\ reply.result = Err("AccessRejected")
    /\ \E k \in Keys :
        has(PROPOSAL_MAP, k) /\ stored(PROPOSAL_MAP, k).voted # <<>>

\* C14: get_proposal and get_proposal_count never fail and leave the whole
\* store unchanged; get_proposal of a key never written returns none and
\* get_proposal_count returns the same before and after it.
C14_ReadsHaveNoEffect ==
    [][/\ reply'.op \in {"get_proposal", "get_proposal_count"}
            => reply'.result = Ok /\ PROPOSAL_MAP' = PROPOSAL_MAP
       /\ \A k \in Keys :
            (reply'.op = "get_proposal" /\ k \notin created_keys /\ get_proposal(k))
            => /\ reply'.ret = None
               /\ get_proposal_count_call(PROPOSAL_MAP').count
                    = get_proposal_count_call(PROPOSAL_MAP).count]_vars

\* C14 witness: get_proposal returned none for a key never written while
\* the other key holds a record.
C14_Witness ==
    /\ reply.op = "get_proposal"
    /\ reply.ret = None
    /\ created_keys # {}
    /\ created_keys # Keys

C16_EditReplacesTwoFields ==
    [][\A c \in Principals, k \in Keys, p \in CreateProposals :
        (reply'.op = "edit_proposal" /\ reply'.result = Ok /\ edit_proposal(c, k, p))
        => LET old == stored(PROPOSAL_MAP, k)
               new == stored(PROPOSAL_MAP', k)
           IN  /\ c = old.owner
               /\ new.description = p.description
               /\ new.is_active = p.is_active
               /\ new.approve = old.approve
               /\ new.reject = old.reject
               /\ new.pass = old.pass
               /\ new.voted = old.voted
               /\ new.owner = old.owner
               /\ \A k2 \in Keys \ {k} :
                    get_proposal_call(PROPOSAL_MAP', k2).ret
                        = get_proposal_call(PROPOSAL_MAP, k2).ret]_vars

\* C16 witness: an edit_proposal succeeded while both keys hold a record,
\* one of them with a voter.
C16_Witness ==
    /\ reply.op = "edit_proposal"
    /\ reply.result = Ok
    /\ DOMAIN PROPOSAL_MAP = Keys
    /\ \E k \in Keys : stored(PROPOSAL_MAP, k).voted # <<>>

\* C17: end_proposal(k) by the owner succeeds, also on a record that is
\* inactive already, sets is_active to false and leaves the other fields;
\* a vote on k made right after it by a caller that has not voted fails
\* with ProposalIsNotActive.
C17_EndClosesRecord ==
    [][\A c \in Principals, k \in Keys :
        (/\ reply'.op = "end_proposal"
         /\ has(PROPOSAL_MAP, k)
         /\ stored(PROPOSAL_MAP, k).owner = c
         /\ end_proposal(c, k))
        => LET old == stored(PROPOSAL_MAP, k)
               new == stored(PROPOSAL_MAP', k)
           IN  /\ reply'.result = Ok
               /\ new.is_active = FALSE
               /\ new.description = old.description
               /\ new.approve = old.approve
               /\ new.reject = old.reject
               /\ new.pass = old.pass
               /\ new.voted = old.voted
               /\ new.owner = old.owner
               /\ \A c2 \in Principals, ch \in Choice :
                    ~contains(new.voted, c2)
                    => LET next == vote_call(PROPOSAL_MAP', c2, k, ch, overflow_checks)
                       IN  /\ next.result = Err("ProposalIsNotActive")
                           /\ next.map = PROPOSAL_MAP']_vars

\* C17 witness: an end_proposal succeeded and the only record is inactive
\* and has one voter, so that the other caller has not voted.
C17_Witness ==
    /\ reply.op = "end_proposal"
    /\ reply.result = Ok
    /\ \E k \in Keys :
        /\ DOMAIN PROPOSAL_MAP = {k}
        /\ ~stored(PROPOSAL_MAP, k).is_active
        /\ Len(stored(PROPOSAL_MAP, k).voted) = 1

\* C18: no call of edit_proposal, end_proposal or vote returns UpdateError.
C18_NoUpdateError ==
    reply.result # Err("UpdateError")

\* C18 witness: a vote was written back while both keys hold a record.
C18_Witness ==
    /\ reply.op = "vote"
    /\ reply.result = Ok
    /\ DOMAIN PROPOSAL_MAP = Keys

C20_TallyMatchesVoters ==
    \A k \in Keys :
        has(PROPOSAL_MAP, k) =>
            LET p == stored(PROPOSAL_MAP, k)
                n == Len(p.voted)
            IN  /\ tally(p) = [hi |-> 0, lo |-> n]
                /\ \A x \in {p.approve, p.reject, p.pass} : x.hi = 0 /\ x.lo <= n
====
